---- MODULE Spec2Model ----
(***************************************************************************)
(* Model of the fuel-station extraction pipeline of sasco_mcp:             *)
(*   helpers.py  read_fuel_station_records, _get_column_value,             *)
(*               _normalize_boolean, _normalize_status                     *)
(*   server.py   get_fuel_stations (the tool wrapped around the reader)    *)
(*                                                                         *)
(* Strings are sequences of characters.  An ASCII character is a string of *)
(* length one; an Arabic letter is written by its transliterated name      *)
(* ("ayn", "mim", ...), which str.lower() and str.strip() leave alone.     *)
(* Cell values are records [t |-> <python type>, v |-> <payload>].         *)
(***************************************************************************)
EXTENDS Integers, Sequences, FiniteSets, TLC

VARIABLES
    pc,            \* position of the call: see the actions below
    city,          \* the city argument of the call (a value, None when absent)
    exists,        \* whether the Excel file exists on disk
    parses,        \* whether pd.read_excel succeeds on the file
    rows,          \* the rows of the data frame, in file order
    i,             \* number of rows the for loop has taken from the frame
    all_stations,  \* the list the reader builds up
    emitted,       \* history: for each element of all_stations, its row index
    raised,        \* the exception in flight or last raised ("" when none)
    result,        \* what get_fuel_stations returned to its caller
    call           \* the last call of a helper function: [fn, args, ret]

vars == <<pc, city, exists, parses, rows, i, all_stations, emitted, raised, result, call>>

----------------------------------------------------------------------------
(* Python strings *)

UpperAZ == <<"A","B","C","D","E","F","G","H","I","J","K","L","M",
             "N","O","P","Q","R","S","T","U","V","W","X","Y","Z">>
LowerAZ == <<"a","b","c","d","e","f","g","h","i","j","k","l","m",
             "n","o","p","q","r","s","t","u","v","w","x","y","z">>

LowerChar(c) ==
    IF \E k \in DOMAIN UpperAZ : UpperAZ[k] = c
    THEN LowerAZ[CHOOSE k \in DOMAIN UpperAZ : UpperAZ[k] = c]
    ELSE c

\* str.lower()
Lower(s) == [k \in DOMAIN s |-> LowerChar(s[k])]

IsSpace(c) == c = " "

RECURSIVE LStrip(_)
LStrip(s) == IF s # <<>> /\ IsSpace(Head(s)) THEN LStrip(Tail(s)) ELSE s

RECURSIVE RStrip(_)
RStrip(s) ==
    IF s # <<>> /\ IsSpace(s[Len(s)]) THEN RStrip(SubSeq(s, 1, Len(s) - 1)) ELSE s

\* str.strip()
Strip(s) == RStrip(LStrip(s))

\* a in b, for two strings
Contains(a, b) ==
    \E k \in 0 .. (Len(b) - Len(a)) : SubSeq(b, k + 1, k + Len(a)) = a

\* x in [t1, t2, ...]
InList(x, list) == \E k \in DOMAIN list : list[k] = x

----------------------------------------------------------------------------
(* Python values *)

None       == [t |-> "NoneType", v |-> "None"]
NaN        == [t |-> "float",    v |-> "nan"]
PyStr(s)   == [t |-> "str",      v |-> s]
PyBool(b)  == [t |-> "bool",     v |-> b]
PyInt(n)   == [t |-> "int",      v |-> n]
PyFloat(f) == [t |-> "float",    v |-> f]

\* pd.isna(x) for a scalar
IsNa(x) == x = None \/ x = NaN

\* pd.notna(x) for a scalar
NotNa(x) == ~IsNa(x)

\* bool(x): the truth value of a scalar
Truthy(x) ==
    CASE x.t = "NoneType" -> FALSE
      [] x.t = "bool"     -> x.v
      [] x.t = "int"      -> x.v # 0
      [] x.t = "float"    -> x.v # "0.0"
      [] x.t = "str"      -> x.v # <<>>

Digits == <<"0","1","2","3","4","5","6","7","8","9">>

RECURSIVE IntChars(_)
IntChars(n) ==
    IF n < 10 THEN <<Digits[n + 1]>> ELSE IntChars(n \div 10) \o <<Digits[(n % 10) + 1]>>

\* str(x) as a sequence of characters
StrOf(x) ==
    CASE x.t = "str"      -> x.v
      [] x.t = "bool"     -> IF x.v THEN <<"T","r","u","e">> ELSE <<"F","a","l","s","e">>
      [] x.t = "int"      -> IF x.v < 0 THEN <<"-">> \o IntChars(-x.v) ELSE IntChars(x.v)
      [] x.t = "float"    -> IF x.v = "0.0" THEN <<"0",".","0">>
                             ELSE IF x.v = "2.5" THEN <<"2",".","5">>
                             ELSE <<"n","a","n">>
      [] x.t = "NoneType" -> <<"N","o","n","e">>

----------------------------------------------------------------------------
(* _get_column_value: a row is a function from its column names to values *)

\* mutant: the pd.notna test is left out
RECURSIVE _get_column_value_AnyCell(_, _)
_get_column_value_AnyCell(row, possible_columns) ==
    IF possible_columns = <<>> THEN None
    ELSE IF Head(possible_columns) \in DOMAIN row
         THEN row[Head(possible_columns)]
         ELSE _get_column_value_AnyCell(row, Tail(possible_columns))

RECURSIVE _get_column_value(_, _)
_get_column_value(row, possible_columns) ==
    IF possible_columns = <<>> THEN None
    ELSE LET col == Head(possible_columns) IN
         IF col \in DOMAIN row /\ NotNa(row[col])
         THEN row[col]
         ELSE _get_column_value(row, Tail(possible_columns))

----------------------------------------------------------------------------
(* _normalize_boolean *)

AVAILABLE     == <<"mim","ta","waw","fa","ra">>
NOT_AVAILABLE == <<"ghayn","ya","ra"," ","mim","ta","waw","fa","ra">>

BooleanTrueTokens ==
    << <<"t","r","u","e">>, <<"y","e","s">>, <<"nun","ayn","mim">>, <<"1">>,
       <<"mim","waw","jim","waw","dal">>, AVAILABLE >>

BooleanFalseTokens ==
    << <<"f","a","l","s","e">>, <<"n","o">>, <<"lam","alif">>, <<"0">>,
       <<"ghayn","ya","ra"," ","mim","waw","jim","waw","dal">>, NOT_AVAILABLE >>

\* mutant: a number is given the tokens of the string branch
_normalize_boolean_Tokens(value) ==
    IF IsNa(value) THEN None
    ELSE IF value.t = "bool" THEN value
    ELSE IF value.t = "str" THEN
        LET lowered == Strip(Lower(value.v)) IN
        IF InList(lowered, BooleanTrueTokens) THEN PyStr(AVAILABLE)
        ELSE IF InList(lowered, BooleanFalseTokens) THEN PyStr(NOT_AVAILABLE)
        ELSE None
    ELSE IF Truthy(value) THEN PyStr(AVAILABLE) ELSE PyStr(NOT_AVAILABLE)

_normalize_boolean(value) ==
    IF IsNa(value) THEN None
    ELSE IF value.t = "bool" THEN value
    ELSE IF value.t = "str" THEN
        LET lowered == Strip(Lower(value.v)) IN
        IF InList(lowered, BooleanTrueTokens) THEN PyStr(AVAILABLE)
        ELSE IF InList(lowered, BooleanFalseTokens) THEN PyStr(NOT_AVAILABLE)
        ELSE None
    ELSE IF value.t \in {"int", "float"} THEN PyBool(Truthy(value))
    ELSE None

----------------------------------------------------------------------------
(* _normalize_status *)

WORKING     == <<"W","o","r","k","i","n","g">>
NOT_WORKING == <<"N","o","t"," ","W","o","r","k","i","n","g">>

StatusWorkingTokens ==
    << <<"w","o","r","k","i","n","g">>, <<"a","c","t","i","v","e">>,
       <<"ya","ayn","mim","lam">>, <<"nun","shin","tah">>, <<"fa","ayn","alif","lam">>,
       <<"A","u","t","o","m","a","t","e","d">>, <<"a","u","t","o","m","a","t","e","d">> >>

StatusNotWorkingTokens ==
    << <<"n","o","t"," ","w","o","r","k","i","n","g">>, <<"i","n","a","c","t","i","v","e">>,
       <<"lam","alif"," ","ya","ayn","mim","lam">>, <<"ghayn","ya","ra"," ","nun","shin","tah">>,
       <<"mim","ayn","tah","lam">>,
       <<"N","o","t"," ","A","u","t","o","m","a","t","e","d">>,
       <<"n","o","t"," ","a","u","t","o","m","a","t","e","d">> >>

\* mutant: the lowered copy is used for matching only, the input is returned
_normalize_status_KeepInput(value) ==
    IF IsNa(value) THEN None
    ELSE IF value.t = "str" THEN
        LET lowered == Strip(Lower(value.v)) IN
        IF InList(lowered, StatusWorkingTokens) THEN PyStr(WORKING)
        ELSE IF InList(lowered, StatusNotWorkingTokens) THEN PyStr(NOT_WORKING)
        ELSE PyStr(StrOf(value))
    ELSE PyStr(StrOf(value))

_normalize_status(value) ==
    IF IsNa(value) THEN None
    ELSE IF value.t = "str" THEN
        LET lowered == Strip(Lower(value.v)) IN
        IF InList(lowered, StatusWorkingTokens) THEN PyStr(WORKING)
        ELSE IF InList(lowered, StatusNotWorkingTokens) THEN PyStr(NOT_WORKING)
        ELSE PyStr(StrOf(PyStr(lowered)))
    ELSE PyStr(StrOf(value))

----------------------------------------------------------------------------
(* read_fuel_station_records: the alias lists of the station_data literal *)

RegionAliases   == <<"Region", "region">>
CityAliases     == <<"City", "ar:al-madina", "city">>
StationAliases  == <<"Fuel Station Name", "fuel_station", "station_name", "ar:ism al-mahatta">>
StatusAliases   == <<"Status", "status of the station", "station_status", "ar:halat al-mahatta">>
RfidAliases     == <<"Control Service Type", "RFID", "rfid">>
SmartAliases    == <<"Smart Card", "smart cars", "smart_cars", "ar:as-sayyarat adh-dhakiyya">>
DieselAliases   == <<"Diesel", "diesel", "ar:dizil">>
DistrictAliases == <<"ar:ism al-hayy", "ar:al-hayy", "district", "area", "ar:ism al-hayy ">>

\* the station_data dictionary built for one row
StationData(row) ==
    [ region         |-> _get_column_value(row, RegionAliases),
      city           |-> _get_column_value(row, CityAliases),
      fuel_station   |-> _get_column_value(row, StationAliases),
      station_status |-> _normalize_status(_get_column_value(row, StatusAliases)),
      rfid           |-> _normalize_boolean(_get_column_value(row, RfidAliases)),
      smart_cars     |-> _normalize_boolean(_get_column_value(row, SmartAliases)),
      diesel         |-> _normalize_boolean(_get_column_value(row, DieselAliases)),
      district       |-> _get_column_value(row, DistrictAliases) ]

\* x.lower() raises AttributeError unless x is a str
HasLower(x) == x.t = "str"

\* station_data['station_status'].lower() == 'Not Working'.lower()
IsNotWorking(station_data) ==
    Lower(station_data.station_status.v) = Lower(NOT_WORKING)

\* mutant: continue in place of break
AfterNotWorking_Continue == "loop"

\* where the loop goes on a Not Working row: break leaves the loop
AfterNotWorking == "return"

\* if city and station_data['city']:
FilterApplies(c, station_data) == Truthy(c) /\ Truthy(station_data.city)

\* mutant: the test without its "not"
FilteredOut_Inverted(c, station_data) ==
    Contains(Lower(c.v), Lower(station_data.city.v))

\* city.lower() not in station_data['city'].lower()  ->  continue
FilteredOut(c, station_data) ==
    ~Contains(Lower(c.v), Lower(station_data.city.v))

\* mutant: the test on the station name is left out
HasStationName_Always(station_data) == TRUE

\* if station_data['fuel_station'] and pd.notna(station_data['fuel_station']):
HasStationName(station_data) ==
    Truthy(station_data.fuel_station) /\ NotNa(station_data.fuel_station)

\* mutant: insert(0, x) in place of append(x)
ListAppend_Front(list, x) == <<x>> \o list

\* all_stations.append(station_data)
ListAppend(list, x) == Append(list, x)

\* mutant: the except clause empties the list
ReturnedAfterExcept_Empty(list) == <<>>

\* what the function returns after the except clause has printed the error
ReturnedAfterExcept(list) == list

\* One iteration of the loop body on a row: which way it leaves.
\*   "raise"    an AttributeError from a .lower() on a value that is not a str
\*   "break"    the row is Not Working
\*   "continue" the row fails the city filter
\*   "append"   the row is appended
\*   "skip"     the row has no station name
RowOutcome(c, row) ==
    LET station_data == StationData(row) IN
    IF ~HasLower(station_data.station_status) THEN "raise"
    ELSE IF IsNotWorking(station_data) THEN "break"
    ELSE IF FilterApplies(c, station_data) /\ ~(HasLower(c) /\ HasLower(station_data.city))
         THEN "raise"
    ELSE IF FilterApplies(c, station_data) /\ FilteredOut(c, station_data) THEN "continue"
    ELSE IF HasStationName(station_data) THEN "append"
    ELSE "skip"

----------------------------------------------------------------------------
(* Inputs: city arguments, cell values and rows *)

sRiyadhOlaya == <<"R","i","y","a","d","h"," ","-"," ","A","l"," ","O","l","a","y","a">>
sRiyadh      == <<"R","i","y","a","d","h">>
sJeddah      == <<"J","e","d","d","a","h">>
sJeddahLow   == <<"j","e","d","d","a","h">>
sPending     == <<"P","e","n","d","i","n","g"," ","R","e","v","i","e","w">>
sActivePad   == <<" ","A","C","T","I","V","E"," ">>
sInactivePad == <<"I","n","a","c","t","i","v","e"," ">>
sAutomated   == <<"A","u","t","o","m","a","t","e","d">>
sYes         == <<"Y","e","s">>
sCentral     == <<"C","e","n","t","r","a","l">>

\* the city argument of a call: absent, empty, or a name in either case
Cities ==
    { None, PyStr(<<>>), PyStr(<<"r","i","y","a","d","h">>),
      PyStr(<<"J","E","D","D","A","H">>) }

RowA ==  \* working, in Riyadh, with service columns
    ("Fuel Station Name" :> PyStr(<<"A">>)) @@ ("Status" :> PyStr(WORKING))
    @@ ("City" :> PyStr(sRiyadhOlaya)) @@ ("Region" :> PyStr(sCentral))
    @@ ("RFID" :> PyStr(sYes)) @@ ("Smart Card" :> PyInt(0)) @@ ("Diesel" :> PyBool(TRUE))
RowB ==  \* working (padded upper case), in Jeddah
    ("Fuel Station Name" :> PyStr(<<"B">>)) @@ ("Status" :> PyStr(sActivePad))
    @@ ("City" :> PyStr(sJeddah))
RowC ==  \* not working, in Riyadh
    ("Fuel Station Name" :> PyStr(<<"C">>)) @@ ("Status" :> PyStr(NOT_WORKING))
    @@ ("City" :> PyStr(sRiyadh))
RowD ==  \* not working by another token (padded, mixed case), in Jeddah, unnamed
    ("Fuel Station Name" :> NaN) @@ ("Status" :> PyStr(sInactivePad))
    @@ ("City" :> PyStr(sJeddah))
RowE ==  \* the status cell is empty
    ("Fuel Station Name" :> PyStr(<<"E">>)) @@ ("Status" :> NaN)
    @@ ("City" :> PyStr(sRiyadh))
RowF ==  \* a free-text status, the city cell is empty
    ("Fuel Station Name" :> PyStr(<<"F">>)) @@ ("Status" :> PyStr(sPending))
    @@ ("City" :> NaN)
RowG ==  \* the station name cell is empty
    ("Fuel Station Name" :> NaN) @@ ("Status" :> PyStr(WORKING))
    @@ ("City" :> PyStr(sRiyadh))
RowH ==  \* every field under a lower-priority alias
    ("Fuel Station Name" :> NaN) @@ ("fuel_station" :> PyStr(<<"H">>))
    @@ ("station_status" :> PyStr(sAutomated)) @@ ("city" :> PyStr(sJeddahLow))
    @@ ("rfid" :> PyFloat("2.5"))
RowI ==  \* the city cell holds a number
    ("Fuel Station Name" :> PyStr(<<"I">>)) @@ ("Status" :> PyStr(WORKING))
    @@ ("City" :> PyInt(7))

RowUniverse == {RowA, RowB, RowC, RowD, RowE, RowF, RowG, RowH, RowI}

\* the longest data frame considered
MaxRows == 3

Frames == UNION { [1 .. n -> RowUniverse] : n \in 0 .. MaxRows }

NoCall   == [fn |-> "", args |-> <<>>, ret |-> None]
NoResult == [kind |-> "none", value |-> <<>>]

----------------------------------------------------------------------------
(* The call as the source has it: get_fuel_stations -> read_fuel_station_records *)

Inputs ==
    /\ city \in Cities
    /\ exists \in BOOLEAN
    /\ parses \in (IF exists THEN BOOLEAN ELSE {FALSE})
    /\ rows \in (IF parses THEN Frames ELSE {<<>>})
    /\ i = 0
    /\ all_stations = <<>>
    /\ emitted = <<>>
    /\ raised = ""
    /\ result = NoResult
    /\ call = NoCall

Init == pc = "tool" /\ Inputs

\* records_path = "data"
records_path == PyStr(<<"d","a","t","a">>)

\* a / b is defined for a pathlib.Path on the left, not for a str
SupportsTruediv(x) == x.t = "Path"

\* get_fuel_stations: logger.info(...); stations = read_fuel_station_records(city)
ToolCall ==
    /\ pc = "tool"
    /\ pc' = "join"
    /\ UNCHANGED <<city, exists, parses, rows, i, all_stations, emitted, raised, result, call>>

\* excel_file = records_path / "<name>.xlsx"
JoinPath ==
    /\ pc = "join"
    /\ IF SupportsTruediv(records_path)
       THEN pc' = "exists" /\ raised' = raised
       ELSE pc' = "handler" /\ raised' = "TypeError"
    /\ UNCHANGED <<city, exists, parses, rows, i, all_stations, emitted, result, call>>

\* if not excel_file.exists(): raise FileNotFoundError(...);  all_stations = []
CheckExists ==
    /\ pc = "exists"
    /\ IF exists
       THEN pc' = "read" /\ raised' = raised /\ all_stations' = <<>>
       ELSE pc' = "handler" /\ raised' = "FileNotFoundError" /\ all_stations' = all_stations
    /\ UNCHANGED <<city, exists, parses, rows, i, emitted, result, call>>

\* try: df = pd.read_excel(excel_file, header=2); df = df.drop(columns=..., errors='ignore')
ReadExcel ==
    /\ pc = "read"
    /\ IF parses
       THEN pc' = "loop" /\ raised' = raised
       ELSE pc' = "except" /\ raised' = "ValueError"
    /\ UNCHANGED <<city, exists, parses, rows, i, all_stations, emitted, result, call>>

\* for i, row in df.iterrows(): one iteration, or the end of the frame
Iterate ==
    /\ pc = "loop"
    /\ IF i = Len(rows)
       THEN /\ pc' = "return"
            /\ UNCHANGED <<i, all_stations, emitted, raised>>
       ELSE LET row == rows[i + 1]
                out == RowOutcome(city, row) IN
            /\ i' = i + 1
            /\ pc' = CASE out = "raise" -> "except"
                       [] out = "break" -> AfterNotWorking
                       [] OTHER         -> "loop"
            /\ raised' = IF out = "raise" THEN "AttributeError" ELSE raised
            /\ all_stations' = IF out = "append"
                               THEN ListAppend(all_stations, StationData(row))
                               ELSE all_stations
            /\ emitted' = IF out = "append" THEN Append(emitted, i + 1) ELSE emitted
    /\ UNCHANGED <<city, exists, parses, rows, result, call>>

\* except Exception as e: print(...)
Except ==
    /\ pc = "except"
    /\ pc' = "return"
    /\ all_stations' = ReturnedAfterExcept(all_stations)
    /\ emitted' = SubSeq(emitted, 1, Len(all_stations'))  \* the history follows the list
    /\ UNCHANGED <<city, exists, parses, rows, i, raised, result, call>>

\* return all_stations
Return ==
    /\ pc = "return"
    /\ pc' = "returned"
    /\ UNCHANGED <<city, exists, parses, rows, i, all_stations, emitted, raised, result, call>>

\* get_fuel_stations: logger.info(...); return stations
ToolReturn ==
    /\ pc = "returned"
    /\ pc' = "done"
    /\ result' = [kind |-> "stations", value |-> all_stations]
    /\ UNCHANGED <<city, exists, parses, rows, i, all_stations, emitted, raised, call>>

\* get_fuel_stations: except FileNotFoundError as e
ToolFileNotFound ==
    /\ pc = "handler"
    /\ raised = "FileNotFoundError"
    /\ pc' = "done"
    /\ result' = [kind |-> "Error: Required Excel file not found", value |-> <<>>]
    /\ UNCHANGED <<city, exists, parses, rows, i, all_stations, emitted, raised, call>>

\* get_fuel_stations: except Exception as e
ToolUnexpected ==
    /\ pc = "handler"
    /\ raised # "FileNotFoundError"
    /\ pc' = "done"
    /\ result' = [kind |-> "Error: Unexpected error occurred", value |-> <<>>]
    /\ UNCHANGED <<city, exists, parses, rows, i, all_stations, emitted, raised, call>>

\* the steps a call of the tool takes, the path expression included
Next == ToolCall \/ JoinPath \/ ToolUnexpected

Spec == Init /\ [][Next]_vars

----------------------------------------------------------------------------
(* The body of read_fuel_station_records from the exists() test on, entered *)
(* with excel_file bound to the path of the workbook.  Spec never gets     *)
(* here: JoinPath raises on the str records_path.  SpecScan is the         *)
(* function as it runs once records_path is a path object.                 *)

InitScan == pc = "exists" /\ Inputs

NextScan ==
    \/ CheckExists \/ ReadExcel \/ Iterate \/ Except \/ Return
    \/ ToolReturn \/ ToolFileNotFound

SpecScan == InitScan /\ [][NextScan]_vars

----------------------------------------------------------------------------
(* The helper functions called on their own, on any value and any row *)

sTrue      == <<"t","r","u","e">>
sTruePad   == <<" ","T","R","U","E"," ">>
sNo        == <<"N","o">>
sFalseUp   == <<"F","A","L","S","E">>
sMaybe     == <<"M","a","y","b","e">>
sNotAutom  == <<"N","o","t"," ","A","u","t","o","m","a","t","e","d">>
sNotWorkUp == <<" ","N","O","T"," ","W","O","R","K","I","N","G">>
sPadPend   == <<" ","p","e","n","d","i","n","g"," ">>

Values ==
    { None, NaN, PyBool(TRUE), PyBool(FALSE),
      PyInt(0), PyInt(1), PyInt(12), PyFloat("0.0"), PyFloat("2.5"),
      PyStr(<<>>), PyStr(<<" ">>),
      PyStr(sTrue), PyStr(sTruePad), PyStr(sYes), PyStr(<<"1">>), PyStr(<<"0">>),
      PyStr(sNo), PyStr(sFalseUp), PyStr(sMaybe),
      PyStr(<<"nun","ayn","mim">>), PyStr(<<"lam","alif">>),
      PyStr(AVAILABLE), PyStr(NOT_AVAILABLE),
      PyStr(<<"mim","waw","jim","waw","dal">>),
      PyStr(WORKING), PyStr(NOT_WORKING), PyStr(sActivePad), PyStr(sInactivePad),
      PyStr(sAutomated), PyStr(sNotAutom), PyStr(sNotWorkUp),
      PyStr(sPending), PyStr(sPadPend),
      PyStr(<<"nun","shin","tah">>), PyStr(<<"mim","ayn","tah","lam">>),
      PyStr(<<"ya","ayn","mim","lam">>), PyStr(<<"lam","alif"," ","ya","ayn","mim","lam">>) }

\* rows whose cells hold None, or several aliases at once
RowJ == ("Fuel Station Name" :> None) @@ ("fuel_station" :> NaN)
        @@ ("station_name" :> PyStr(<<"J">>)) @@ ("ar:ism al-mahatta" :> PyStr(<<"K">>))
RowK == ("fuel_station" :> PyStr(<<"k">>)) @@ ("Fuel Station Name" :> PyStr(<<"K">>))
        @@ ("Diesel" :> PyInt(0)) @@ ("diesel" :> PyStr(sYes)) @@ ("region" :> PyStr(sCentral))
RowL == ("Status" :> None) @@ ("City" :> NaN)

FnRows == RowUniverse \cup {RowJ, RowK, RowL}

AliasLists ==
    { RegionAliases, CityAliases, StationAliases, StatusAliases, RfidAliases,
      SmartAliases, DieselAliases, DistrictAliases,
      <<>>, <<"fuel_station", "Fuel Station Name">>, <<"diesel", "Diesel">> }

InitFn ==
    /\ pc = "fn"
    /\ city = None /\ exists = FALSE /\ parses = FALSE /\ rows = <<>>
    /\ i = 0 /\ all_stations = <<>> /\ emitted = <<>> /\ raised = ""
    /\ result = NoResult
    /\ call = NoCall

Call_get_column_value ==
    /\ pc = "fn"
    /\ \E row \in FnRows, possible_columns \in AliasLists :
         call' = [ fn   |-> "_get_column_value",
                   args |-> <<row, possible_columns>>,
                   ret  |-> _get_column_value(row, possible_columns) ]
    /\ UNCHANGED <<pc, city, exists, parses, rows, i, all_stations, emitted, raised, result>>

Call_normalize_boolean ==
    /\ pc = "fn"
    /\ \E value \in Values :
         call' = [ fn   |-> "_normalize_boolean",
                   args |-> <<value>>,
                   ret  |-> _normalize_boolean(value) ]
    /\ UNCHANGED <<pc, city, exists, parses, rows, i, all_stations, emitted, raised, result>>

Call_normalize_status ==
    /\ pc = "fn"
    /\ \E value \in Values :
         call' = [ fn   |-> "_normalize_status",
                   args |-> <<value>>,
                   ret  |-> _normalize_status(value) ]
    /\ UNCHANGED <<pc, city, exists, parses, rows, i, all_stations, emitted, raised, result>>

NextFn == Call_get_column_value \/ Call_normalize_boolean \/ Call_normalize_status

SpecFn == InitFn /\ [][NextFn]_vars

----------------------------------------------------------------------------
(* Properties of the helper functions, checked under SpecFn *)

Missing(x) == x.t = "NoneType" \/ (x.t = "float" /\ x.v = "nan")

SetOf(list) == { list[k] : k \in DOMAIN list }

\* the lowest position of list whose column the row holds with a value
FirstHit(row, list) ==
    LET hits == { k \in DOMAIN list : list[k] \in DOMAIN row /\ ~Missing(row[list[k]]) }
    IN  IF hits = {} THEN 0 ELSE CHOOSE k \in hits : \A m \in hits : k <= m

\* C10: _get_column_value returns the value of the first alias, in list order,
\* that is a column of the row with a value that is not missing, skipping
\* aliases that are absent or hold a missing value; it returns None exactly
\* when no alias of the list is present with a non-missing value.
C10_FirstPresentAlias ==
    call.fn = "_get_column_value" =>
        LET row  == call.args[1]
            list == call.args[2]
            k    == FirstHit(row, list)
        IN  /\ (k = 0) <=> (call.ret = None)
            /\ k # 0 => call.ret = row[list[k]]

\* C10 witness: the first alias is a column holding NaN and the second alias
\* supplies the value.
C10_Witness ==
    /\ call.fn = "_get_column_value"
    /\ call.args[2] = StationAliases
    /\ "Fuel Station Name" \in DOMAIN call.args[1]
    /\ Missing(call.args[1]["Fuel Station Name"])
    /\ FirstHit(call.args[1], call.args[2]) = 2
    /\ call.ret = PyStr(<<"H">>)

NonZero(x) == IF x.t = "int" THEN x.v # 0 ELSE x.v # "0.0"

WorkingWords    == { Lower(w) : w \in SetOf(StatusWorkingTokens) }
NotWorkingWords == { Lower(w) : w \in SetOf(StatusNotWorkingTokens) }

\* what C6 says of the recognised values: missing -> None, a working word ->
\* "Working", a not-working word -> "Not Working"
C6_Recognised(value, ret) ==
    CASE Missing(value) -> ret = None
      [] value.t = "str" /\ Strip(Lower(value.v)) \in WorkingWords -> ret = PyStr(WORKING)
      [] value.t = "str" /\ Strip(Lower(value.v)) \in NotWorkingWords -> ret = PyStr(NOT_WORKING)
      [] OTHER -> TRUE

C6_Other(value) ==
    /\ value.t = "str"
    /\ Strip(Lower(value.v)) \notin (WorkingWords \cup NotWorkingWords)

\* C6 as stated: _normalize_status returns None for a missing value, "Working"
\* and "Not Working" for the words of the two sets, and every other string
\* unchanged (same characters, same case, same whitespace).
C6_PassthroughUnchanged ==
    call.fn = "_normalize_status" =>
        /\ C6_Recognised(call.args[1], call.ret)
        /\ C6_Other(call.args[1]) => call.ret = call.args[1]

\* C6 as amended: as above, except that every other string is returned
\* lower-cased and with its surrounding whitespace removed.
C6_PassthroughLowered ==
    call.fn = "_normalize_status" =>
        /\ C6_Recognised(call.args[1], call.ret)
        /\ C6_Other(call.args[1]) => call.ret = PyStr(Strip(Lower(call.args[1].v)))

\* C6 witness: "Pending Review" comes back as "pending review".
C6_Witness ==
    /\ call.fn = "_normalize_status"
    /\ call.args[1] = PyStr(sPending)
    /\ call.ret = PyStr(Lower(sPending))
    /\ call.ret # call.args[1]

----------------------------------------------------------------------------
(* Properties of the scan, checked under SpecScan *)

\* the status the row normalizes to
RowStatus(row) == _normalize_status(_get_column_value(row, StatusAliases))

\* the rows whose normalized status equals "Not Working", compared without case
NotWorkingRows ==
    { row \in RowUniverse :
        RowStatus(row).t = "str" /\ Lower(RowStatus(row).v) = Lower(NOT_WORKING) }

NotWorkingRow(row) == row \in NotWorkingRows

\* the rows whose normalized status is a string
StringStatusRows == { row \in RowUniverse : RowStatus(row).t = "str" }

\* the record of each row, and the way the loop body leaves it, row by row
RecordOf  == [ row \in RowUniverse |-> StationData(row) ]
OutcomeOf == [ c \in Cities |-> [ row \in RowUniverse |-> RowOutcome(c, row) ] ]

\* k is the first Not Working row of the frame
FirstNotWorking(k) ==
    /\ k \in 1 .. Len(rows)
    /\ NotWorkingRow(rows[k])
    /\ \A j \in 1 .. (k - 1) : ~NotWorkingRow(rows[j])

\* the rows in which some fuel_station alias is a column with a non-missing value
NamedRows ==
    { row \in RowUniverse :
        \E a \in SetOf(StationAliases) : a \in DOMAIN row /\ ~Missing(row[a]) }

NameResolves(row) == row \in NamedRows

\* the rows in which no city alias is a column with a non-missing value
CitylessRows ==
    { row \in RowUniverse :
        \A a \in SetOf(CityAliases) : a \in DOMAIN row => Missing(row[a]) }

CityMissing(row) == row \in CitylessRows

Emitted == { emitted[n] : n \in DOMAIN emitted }

Returned == pc = "done" /\ result.kind = "stations"

C5_NamedOnly ==
    /\ \A n \in DOMAIN all_stations :
         /\ ~Missing(all_stations[n].fuel_station)
         /\ NameResolves(rows[emitted[n]])
    /\ Returned => \A n \in DOMAIN result.value : ~Missing(result.value[n].fuel_station)

\* C5 witness: the call has returned a record of a row that follows a row
\* with a usable status and no station name.
C5_Witness ==
    /\ Returned
    /\ \E n \in DOMAIN emitted : \E j \in 1 .. (emitted[n] - 1) :
         /\ ~NameResolves(rows[j])
         /\ ~NotWorkingRow(rows[j])

\* C8: the output is a subsequence of the rows, in file order: its n-th record
\* is the record of row emitted[n], and emitted is strictly increasing.
C8_SourceOrder ==
    /\ Len(all_stations) = Len(emitted)
    /\ \A n \in DOMAIN emitted :
         /\ emitted[n] \in 1 .. i
         /\ all_stations[n] = RecordOf[rows[emitted[n]]]
    /\ \A m, n \in DOMAIN emitted : m < n => emitted[m] < emitted[n]
    /\ Returned => result.value = all_stations

\* C8 witness: the call has returned two records of rows that are not
\* neighbours in the file.
C8_Witness ==
    /\ Returned
    /\ Len(result.value) >= 2
    /\ emitted[2] > emitted[1] + 1
    /\ result.value[1] # result.value[2]

RanThrough(k) ==
    /\ k \in 1 .. i
    /\ rows[k] \in StringStatusRows
    /\ ~NotWorkingRow(rows[k])

FailedInTry == exists /\ raised \in {"ValueError", "AttributeError"}

AppendedBefore(k) == { j \in 1 .. (k - 1) : OutcomeOf[city][rows[j]] = "append" }

----------------------------------------------------------------------------
(* Properties of the call as the source has it, checked under Spec *)

\* C4 as stated: when the file does not exist the reader raises
\* FileNotFoundError, for every city, and the tool reports the file-not-found
\* error, not the unexpected-error one.
C4_NotFoundReported ==
    (pc = "done" /\ ~exists) =>
        /\ raised = "FileNotFoundError"
        /\ result.kind = "Error: Required Excel file not found"

====
